---------------------------- MODULE Spec2Model ----------------------------
(***************************************************************************)
(* Model of planet_overlap's pagination module: spatial tiling (tile_aoi), *)
(* temporal slicing (tile_dates) and the retrying, cursor-paginated fetch  *)
(* loop (fetch_planet_data); of the AOI loop of run_client (client.py);    *)
(* and of normalize_geometry and load_aois (geometry.py).                  *)
(*                                                                         *)
(* Dates are whole days (integers).  Geometry is discretised: an AOI is a  *)
(* finite set of unit grid squares <<x, y>>, the square with lower-left    *)
(* corner (x, y), UnitsPerDeg units making one degree.                     *)
(***************************************************************************)
EXTENDS Integers, Sequences, FiniteSets, TLC

(***************************************************************************)
(* Program constants (pagination.py, "Configuration thresholds").          *)
(***************************************************************************)
SPATIAL_TILE_AREA_THRESHOLD_KM2 == 50000
TEMPORAL_TILE_DAYS_THRESHOLD == 30
MAX_RETRIES == 5
KmPerDeg == 111
DefaultPageSize == 250

(***************************************************************************)
(* Bounds of the model.                                                    *)
(***************************************************************************)
UnitsPerDeg == 2      \* grid units per degree (resolution of the geometry)
MaxInv == 2           \* the server stops sending items once ids is this long
MaxFeat == 2          \* most features on one page
MaxPages == 2         \* the page counters saturate above this
MaxCursors == 2       \* distinct cursor URLs the server hands out
MaxStart == 2         \* tile_dates inputs: start in 0..MaxStart
MaxDays == 9          \* tile_dates inputs: range length in 1..MaxDays
MaxSlice == 4         \* tile_dates inputs: max_days in 1..MaxSlice
MaxCoord == 4         \* tile_aoi inputs: squares at coordinates up to this
MaxTile == 3          \* tile_aoi inputs: tile size in 1..MaxTile grid units
MaxFiles == 3         \* run_client inputs: at most this many AOI files
MaxBack == 2          \* the earliest day a date can hold is 0 - MaxBack

(***************************************************************************)
(* Arithmetic helpers.                                                     *)
(***************************************************************************)
Min(a, b) == IF a <= b THEN a ELSE b

SetMin(S) == CHOOSE x \in S : \A y \in S : x <= y

SetMax(S) == CHOOSE x \in S : \A y \in S : y <= x

\* a division rounding down where the code rounds up
FloorDiv(a, b) == a \div b

\* math.ceil(a / b) for a >= 0, b > 0
CeilDiv(a, b) == (a + b - 1) \div b

(***************************************************************************)
(* tile_dates: split [start, end] into slices of at most max_days days.    *)
(***************************************************************************)
\* A slice reaching one day too far: current_start + max_days, not max_days - 1.
SliceEndOffByOne(current_start, end, max_days) ==
    Min(current_start + max_days, end)

\* current_end = min(current_start + timedelta(days=max_days - 1), end)
SliceEnd(current_start, end, max_days) ==
    Min(current_start + (max_days - 1), end)

RECURSIVE SliceLoop(_, _, _)
\* while current_start <= end: append (current_start, current_end); advance
SliceLoop(current_start, end, max_days) ==
    IF current_start <= end
    THEN LET current_end == SliceEnd(current_start, end, max_days)
         IN  <<<<current_start, current_end>>>>
                 \o SliceLoop(current_end + 1, end, max_days)
    ELSE <<>>

tile_dates(start, end, max_days) ==
    LET total_days == (end - start) + 1
    IN  IF total_days <= max_days
        THEN <<<<start, end>>>>
        ELSE SliceLoop(start, end, max_days)

(***************************************************************************)
(* Geometry: bounds, flat-approximation area test, tile_aoi.               *)
(***************************************************************************)
\* aoi.bounds = (minx, miny, maxx, maxy), in grid units
Bounds(aoi) ==
    <<SetMin({c[1] : c \in aoi}), SetMin({c[2] : c \in aoi}),
      SetMax({c[1] : c \in aoi}) + 1, SetMax({c[2] : c \in aoi}) + 1>>

\* the comparison turned round: small AOIs tiled, large ones left whole
NeedsSpatialTilingInverted(aoi) ==
    LET b == Bounds(aoi)
    IN  (b[3] - b[1]) * (b[4] - b[2]) * KmPerDeg * KmPerDeg
            < SPATIAL_TILE_AREA_THRESHOLD_KM2 * UnitsPerDeg * UnitsPerDeg

\* approx_area_km2 > SPATIAL_TILE_AREA_THRESHOLD_KM2, both sides scaled by
\* UnitsPerDeg^2 so that the comparison stays in integers
NeedsSpatialTiling(aoi) ==
    LET b == Bounds(aoi)
    IN  (b[3] - b[1]) * (b[4] - b[2]) * KmPerDeg * KmPerDeg
            > SPATIAL_TILE_AREA_THRESHOLD_KM2 * UnitsPerDeg * UnitsPerDeg

\* box(x0, y0, x1, y1).intersection(aoi)
BoxIntersection(aoi, x0, y0, x1, y1) ==
    {c \in aoi : x0 <= c[1] /\ c[1] + 1 <= x1 /\ y0 <= c[2] /\ c[2] + 1 <= y1}

\* the box of grid cell (i, j), lines 47-52: its far corner clipped to the
\* bounding box
GridCell(aoi, size, i, j) ==
    LET b == Bounds(aoi)
    IN  <<b[1] + i * size,
          b[2] + j * size,
          Min(b[1] + (i + 1) * size, b[3]),
          Min(b[2] + (j + 1) * size, b[4])>>

\* the boxes the double loop builds, in loop order
GridCells(aoi, size) ==
    LET b == Bounds(aoi)
        x_steps == CeilDiv(b[3] - b[1], size)
        y_steps == CeilDiv(b[4] - b[2], size)
    IN  [k \in 1..(x_steps * y_steps) |->
            GridCell(aoi, size, (k - 1) \div y_steps, (k - 1) % y_steps)]

RECURSIVE TileCells(_, _, _, _, _)
\* the double loop "for i in range(x_steps): for j in range(y_steps)",
\* the cell index k running over i * y_steps + j
TileCells(aoi, size, k, x_steps, y_steps) ==
    IF k >= x_steps * y_steps
    THEN <<>>
    ELSE LET i == k \div y_steps
             j == k % y_steps
             tile == GridCell(aoi, size, i, j)
             intersection ==
                 BoxIntersection(aoi, tile[1], tile[2], tile[3], tile[4])
             rest == TileCells(aoi, size, k + 1, x_steps, y_steps)
         IN  IF intersection # {} THEN <<intersection>> \o rest ELSE rest

\* tile_aoi(aoi, tile_size_deg), the tile size given in grid units
tile_aoi(aoi, size) ==
    LET b == Bounds(aoi)
        x_steps == CeilDiv(b[3] - b[1], size)
        y_steps == CeilDiv(b[4] - b[2], size)
    IN  TileCells(aoi, size, 0, x_steps, y_steps)

\* lines 125-129 of fetch_planet_data: the tiles of one AOI (default 1 degree)
TilesOf(aoi) ==
    IF NeedsSpatialTiling(aoi) THEN tile_aoi(aoi, UnitsPerDeg) ELSE <<aoi>>


(***************************************************************************)
(* Data: dictionaries are records; an absent key holds Missing.            *)
(***************************************************************************)
Missing == "<absent>"

\* features of a results page: {id, geometry, properties}
Feature(i, g, p) == [id |-> i, geometry |-> g, properties |-> p]

GoodFeatures == {Feature("i1", "g1", "p1"), Feature("i2", "g2", "p2")}

\* features with one expected key absent
BadFeatures == {Feature(Missing, "g1", "p1"), Feature("i1", Missing, "p1"),
                Feature("i1", "g1", Missing)}

\* the feature lists of the pages: all features good, or good ones followed
\* by one with a key absent
GoodSeqs == UNION {[1..n -> GoodFeatures] : n \in 0..MaxFeat}

BadSeqs == {Append(fs, b) : fs \in {g \in GoodSeqs : Len(g) < MaxFeat},
                            b \in BadFeatures}

\* URLs: the first results page of a search, a server-made cursor, and
\* Python's None
Url(kind, id, n) == [kind |-> kind, id |-> id, n |-> n]

UrlNone == Url("None", "", 0)

CursorUrls == {Url("cursor", "", n) : n \in 1..MaxCursors}

\* f"https://api.planet.com/data/v1/searches/{search_id}/results?_page_size={page_size}"
FirstPageUrl(search_id, page_size) == Url("results", search_id, page_size)

\* truth value of a URL in "while next_url:"
Truthy(url) == url # UrlNone

\* bodies of search-creation responses: JSON without "id", JSON with "id";
\* the server names its searches "s1", and may put an "id" in an error body
Body(json, id) == [json |-> json, id |-> id]

BodiesOf(status) ==
    {Body(TRUE, Missing), Body(TRUE, IF status = "2xx" THEN "s1" ELSE "e1")}

Response(status, body) == [status |-> status, body |-> body]

None == Response("None", Body(FALSE, Missing))

\* what session.post can do: raise a RequestException before any response
\* is assigned (connection error, timeout), or return a response
PostOutcomes ==
    {[raised |-> TRUE, resp |-> None]}
        \cup UNION {{[raised |-> FALSE, resp |-> Response(st, b)] :
                        b \in BodiesOf(st)} : st \in {"2xx", "4xx", "5xx"}}

\* what session.get(...).json() can do: raise (network error, body not
\* JSON), or return a dictionary with or without "features" and "_links",
\* the latter with or without "_next"
Page(raised, hasFeatures, features, hasLinks, next) ==
    [raised |-> raised, hasFeatures |-> hasFeatures, features |-> features,
     hasLinks |-> hasLinks, next |-> next]

PageRaises == Page(TRUE, FALSE, <<>>, FALSE, UrlNone)

\* a page as the interface describes it: "features", each with its three
\* keys, and "_links"
WellFormed(page) ==
    /\ ~page.raised
    /\ page.hasFeatures
    /\ \A i \in 1..Len(page.features) : page.features[i] \in GoodFeatures
    /\ page.hasLinks

GetOutcomes ==
    {PageRaises}
        \cup {Page(FALSE, FALSE, <<>>, TRUE, UrlNone)}
        \cup {Page(FALSE, TRUE, fs, FALSE, UrlNone) : fs \in GoodSeqs}
        \cup {Page(FALSE, TRUE, fs, TRUE, nx) :
                  fs \in GoodSeqs, nx \in CursorUrls \cup {UrlNone}}
        \cup {Page(FALSE, TRUE, fs, TRUE, UrlNone) : fs \in BadSeqs}

(***************************************************************************)
(* build_filters (filters.py): the AND of a geometry, a date-range, a      *)
(* cloud-cover and a sun-elevation constraint; cloud cover is in percent.  *)
(***************************************************************************)
InvalidRange(max_cloud, min_sun_angle) ==
    max_cloud \notin 0..100 \/ min_sun_angle \notin 0..90

\* a filter that leaves the sun-elevation constraint out
build_filtersNoSun(tile, start, end, max_cloud, min_sun_angle) ==
    [type |-> "AndFilter",
     config |-> <<[type |-> "GeometryFilter", config |-> tile],
                  [type |-> "DateRangeFilter", config |-> <<start, end>>],
                  [type |-> "RangeFilter", field_name |-> "cloud_cover",
                   lte |-> max_cloud]>>]

build_filters(tile, start, end, max_cloud, min_sun_angle) ==
    [type |-> "AndFilter",
     config |-> <<[type |-> "GeometryFilter", config |-> tile],
                  [type |-> "DateRangeFilter", config |-> <<start, end>>],
                  [type |-> "RangeFilter", field_name |-> "cloud_cover",
                   lte |-> max_cloud],
                  [type |-> "RangeFilter", field_name |-> "sun_elevation",
                   gte |-> min_sun_angle]>>]

(***************************************************************************)
(* Inputs of the model.                                                    *)
(***************************************************************************)
\* a half-degree square (not tiled) and a two-part AOI whose bounding box
\* is large enough to be tiled (into two tiles)
SmallAoi == {<<0, 0>>}

LargeAoi == {<<0, 0>>, <<7, 7>>}

SampleAoiLists == {<<>>, <<SmallAoi>>, <<LargeAoi>>, <<SmallAoi, LargeAoi>>}

\* no range, ten days (one interval), forty-five days (two intervals), and
\* two ranges with a gap between them
SampleRangeLists ==
    {<<>>, <<<<0, 9>>>>, <<<<0, 44>>>>, <<<<0, 9>>, <<20, 44>>>>}

(***************************************************************************)
(* State.                                                                  *)
(***************************************************************************)
VARIABLES
    aois, date_ranges, max_cloud, min_sun_angle,   \* arguments
    ids, geometries, properties,                   \* the inventory
    total_requests, request_count,                 \* progress counters
    pc,                \* control position in fetch_planet_data
    err,               \* the exception that left the function, if any
    ai, tiles, ti,     \* AOIs and tiles consumed so far, tiles of this AOI
    slices, di,        \* intervals of this tile, intervals consumed so far
    search_request, response, attempt, next_url,
    \* history of the current tile x interval pair
    pairState,         \* Idle, Submitting, Paging, Done or Failed
    postCalls,         \* search-creation calls made
    failCalls,         \* of which failed (raised, or answered non-2xx)
    okResp,            \* the 2xx response, None while there is none
    pageCalls,         \* results-page requests made (saturating)
    pagesSent,         \* well-formed pages the server sent (saturating)
    lastNext,          \* the _next of the latest well-formed page sent
    pairItems,         \* features of the well-formed pages sent, in order
    startLen,          \* lengths of the three lists when the pair began
    posted,            \* the search requests submitted for the pair
    names,             \* the names of the search requests built so far
    attempted,         \* the pairs begun so far, in order
    dt,                \* tile_dates called on its own: arguments and result
    tl,                \* the tiling of one AOI on its own: arguments, results
    rc,                \* run_client: arguments, position, AOIs read and processed
    la,                \* load_aois: arguments, position, geometries gathered
    td                 \* tile_dates step by step: arguments, position, locals

argVars == <<aois, date_ranges, max_cloud, min_sun_angle>>

invVars == <<ids, geometries, properties>>

loopVars == <<ai, tiles, ti, slices, di>>

histVars == <<postCalls, failCalls, okResp, pageCalls, pagesSent, lastNext,
              pairItems, startLen, posted, names>>

fetchVars == <<argVars, invVars, total_requests, request_count, pc, err,
               loopVars, search_request, response, attempt, next_url,
               pairState, histVars, attempted>>

\* the functions called on their own
callVars == <<dt, tl, rc, la, td>>

vars == <<fetchVars, callVars>>

NoRequest == [name |-> 0, item_types |-> <<>>, filter |-> <<>>]

NoDates == [start |-> 0, end |-> 0, max_days |-> 0, called |-> FALSE,
            out |-> <<>>]

NoSlicing == [start |-> 0, end |-> 0, max_days |-> 0, pc |-> "idle",
              current_start |-> 0, slices |-> <<>>, err |-> "None"]

NoLoad == [aoi_files |-> <<>>, point_buffer_deg |-> 0, pc |-> "idle",
           fi |-> 0, geometries |-> <<>>, sources |-> <<>>, err |-> "None"]

NoClient == [aoi_files |-> <<>>, start_dates |-> <<>>, end_dates |-> <<>>,
             pc |-> "idle", fi |-> 0, aois |-> <<>>, i |-> 0,
             processed |-> <<>>]

NoTiling == [aoi |-> {}, size |-> 0, called |-> FALSE, cells |-> <<>>,
             out |-> <<>>, fetched |-> FALSE, tiles |-> <<>>]

\* the history of a pair that has made no call yet
FreshHistory ==
    /\ postCalls = 0
    /\ failCalls = 0
    /\ okResp = None
    /\ pageCalls = 0
    /\ pagesSent = 0
    /\ lastNext = UrlNone
    /\ pairItems = <<>>

\* lines 115-120: empty inventory, total_requests, request_count = 0
FetchStart ==
    /\ ids = <<>> /\ geometries = <<>> /\ properties = <<>>
    /\ total_requests = Len(aois) * Len(date_ranges)
    /\ request_count = 0
    /\ pc = "start"
    /\ err = "None"
    /\ ai = 0 /\ tiles = <<>> /\ ti = 0 /\ slices = <<>> /\ di = 0
    /\ search_request = NoRequest
    /\ response = None
    /\ attempt = 0
    /\ next_url = UrlNone
    /\ pairState = "Idle"
    /\ FreshHistory
    /\ startLen = <<0, 0, 0>>
    /\ posted = {}
    /\ names = <<>>
    /\ attempted = <<>>

Init ==
    /\ aois \in SampleAoiLists
    /\ date_ranges \in SampleRangeLists
    /\ max_cloud \in {50, 150}
    /\ min_sun_angle \in {0, 120}
    /\ FetchStart
    /\ dt = NoDates
    /\ td = NoSlicing
    /\ la = NoLoad
    /\ rc = NoClient
    /\ tl = NoTiling

(***************************************************************************)
(* fetch_planet_data: the three nested loops.  A position is the pair      *)
(* (AOI ai, tile ti, interval di) whose body runs next, or the end of the  *)
(* function.  The loop headers are evaluated when a body ends.             *)
(***************************************************************************)
Pos(p, e, a, ts, t, ss, d) ==
    [pc |-> p, err |-> e, ai |-> a, tiles |-> ts, ti |-> t, slices |-> ss,
     di |-> d]

\* tile_dates(date_ranges[0][0], date_ranges[-1][1]) of line 132
RunSlices ==
    tile_dates(date_ranges[1][1], date_ranges[Len(date_ranges)][2],
               TEMPORAL_TILE_DAYS_THRESHOLD)

RECURSIVE FirstPairFrom(_)
\* "for aoi in aois" from AOI number a on: its tiles (lines 125-129), its
\* first tile and the first interval of that tile.  With no AOI left the
\* function returns (line 176); date_ranges[0] on an empty list raises
\* IndexError outside every try block.
FirstPairFrom(a) ==
    IF a > Len(aois)
    THEN Pos("done", "None", Len(aois), <<>>, 0, <<>>, 0)
    ELSE LET ts == TilesOf(aois[a])
         IN  IF ts = <<>> THEN FirstPairFrom(a + 1)
             ELSE IF date_ranges = <<>>
             THEN Pos("raised", "IndexError", a, ts, 1, <<>>, 0)
             ELSE Pos("pair", "None", a, ts, 1, RunSlices, 1)

\* the loop headers after the body of pair (ai, ti, di): the next interval
\* of the tile, else the next tile of the AOI, else the next AOI
AfterPair ==
    IF di < Len(slices) THEN Pos("pair", "None", ai, tiles, ti, slices, di + 1)
    ELSE IF ti < Len(tiles)
    THEN Pos("pair", "None", ai, tiles, ti + 1, RunSlices, 1)
    ELSE FirstPairFrom(ai + 1)

GoTo(pos) ==
    /\ pc' = pos.pc
    /\ err' = pos.err
    /\ ai' = pos.ai
    /\ tiles' = pos.tiles
    /\ ti' = pos.ti
    /\ slices' = pos.slices
    /\ di' = pos.di

\* entering the function: lines 115-132 up to the first pair
Enter ==
    /\ pc = "start"
    /\ GoTo(FirstPairFrom(1))
    /\ UNCHANGED <<argVars, invVars, total_requests, request_count,
                   search_request, response, attempt, next_url, pairState,
                   histVars, attempted, callVars>>

\* the part of starting a pair that always happens: count the request
\* (lines 133-134)
CountRequest ==
    /\ pc = "pair"
    /\ request_count' = request_count + 1
    /\ attempted' = Append(attempted, <<ai, ti, di>>)
    /\ startLen' = <<Len(ids), Len(geometries), Len(properties)>>
    /\ postCalls' = 0
    /\ failCalls' = 0
    /\ okResp' = None
    /\ pageCalls' = 0
    /\ pagesSent' = 0
    /\ lastNext' = UrlNone
    /\ pairItems' = <<>>
    /\ posted' = {}
    /\ UNCHANGED <<argVars, invVars, total_requests, loopVars, next_url,
                   callVars>>

\* a request whose filter spans the whole of date_ranges, not the interval
MakeSearchRequestWholeRange(n, tile, start, end) ==
    [name |-> n,
     item_types |-> <<"PSScene4Band">>,
     filter |-> build_filters(tile, date_ranges[1][1],
                              date_ranges[Len(date_ranges)][2],
                              max_cloud, min_sun_angle)]

\* lines 136-147: filter_json = build_filters(aois=[tile],
\* date_ranges=[(start, end)], ...) and the request named tile_<n>
MakeSearchRequest(n, tile, start, end) ==
    [name |-> n,
     item_types |-> <<"PSScene4Band">>,
     filter |-> build_filters(tile, start, end, max_cloud, min_sun_angle)]

\* lines 133-151: build the filter and the search request, enter the try block
BeginPair ==
    /\ CountRequest
    /\ ~InvalidRange(max_cloud, min_sun_angle)
    /\ search_request' = MakeSearchRequest(request_count + 1, tiles[ti],
                                           slices[di][1], slices[di][2])
    /\ names' = Append(names, search_request'.name)
    /\ response' = None
    /\ attempt' = 0
    /\ pairState' = "Submitting"
    /\ pc' = "post"
    /\ UNCHANGED err

\* build_filters raises: line 136 is outside the try block of line 150
BuildFiltersRaises ==
    /\ CountRequest
    /\ InvalidRange(max_cloud, min_sun_angle)
    /\ pc' = "raised"
    /\ err' = "InvalidRangeError"
    /\ UNCHANGED <<search_request, response, attempt, pairState, names>>

(***************************************************************************)
(* The search-creation retry loop (lines 152-159).                         *)
(***************************************************************************)
\* a loop without its "break": it goes on to the next attempt after a success
LoopEndsNoBreak(ok, att) == att + 1 >= MAX_RETRIES

\* whether "for attempt in range(MAX_RETRIES)" is left after this iteration
LoopEnds(ok, att) == ok \/ att + 1 >= MAX_RETRIES

\* one iteration: session.post, raise_for_status, break or sleep and go on.
\* A RequestException is a raising post or a non-2xx response; a response,
\* whatever its status, has been assigned to "response" when it is raised.
PostSearch ==
    /\ pc = "post"
    /\ attempt < MAX_RETRIES
    /\ \E o \in PostOutcomes :
         LET ok == ~o.raised /\ o.resp.status = "2xx"
             leaves == LoopEnds(ok, attempt)
         IN  /\ response' = IF o.raised THEN response ELSE o.resp
             /\ attempt' = IF leaves THEN attempt ELSE attempt + 1
             /\ pc' = IF leaves THEN "submitted" ELSE "post"
             /\ postCalls' = postCalls + 1
             /\ failCalls' = IF ok THEN failCalls ELSE failCalls + 1
             /\ okResp' = IF ok THEN o.resp ELSE okResp
    /\ posted' = posted \cup {search_request}
    /\ UNCHANGED <<argVars, invVars, total_requests, request_count, err,
                   loopVars, search_request, next_url, pairState, pageCalls,
                   pagesSent, lastNext, pairItems, startLen, names, attempted,
                   callVars>>

\* "if response is None: ... continue" (lines 160-162)
SkipPair ==
    /\ pc = "submitted"
    /\ response = None
    /\ pairState' = "Failed"
    /\ GoTo(AfterPair)
    /\ UNCHANGED <<argVars, invVars, total_requests, request_count,
                   search_request, response, attempt, next_url, histVars,
                   attempted, callVars>>

\* search_id = response.json()["id"] and the first page URL (lines 164-166);
\* a body without "id" raises KeyError into "except Exception"
ReadSearchId ==
    /\ pc = "submitted"
    /\ response # None
    /\ IF response.body.json /\ response.body.id # Missing
       THEN /\ next_url' = FirstPageUrl(response.body.id, DefaultPageSize)
            /\ pairState' = "Paging"
            /\ pc' = "paging"
            /\ UNCHANGED <<err, loopVars>>
       ELSE /\ next_url' = next_url
            /\ pairState' = "Failed"
            /\ GoTo(AfterPair)
    /\ UNCHANGED <<argVars, invVars, total_requests, request_count,
                   search_request, response, attempt, histVars, attempted,
                   callVars>>

(***************************************************************************)
(* The paging loop (lines 167-174).                                        *)
(***************************************************************************)
HasAll(features, key) == \A i \in 1..Len(features) : features[i][key] # Missing

Extract(features, key) == [i \in 1..Len(features) |-> features[i][key]]

\* an assignment where the code accumulates: "=" for "+="
ExtendReplace(seq, features, key) == Extract(features, key)

\* an accumulation that puts the page before what was gathered so far
ExtendInFront(seq, features, key) == Extract(features, key) \o seq

\* ids += [f['id'] for f in page['features']], and likewise for the others
Extend(seq, features, key) == seq \o Extract(features, key)

\* one iteration of "while next_url": get the page, extend the three lists
\* one after the other, read the cursor.  An exception at any point leaves
\* what was extended before it and ends the pair.
GetPage ==
    /\ pc = "paging"
    /\ \E page \in GetOutcomes :
         LET gotIds == ~page.raised /\ page.hasFeatures
                           /\ HasAll(page.features, "id")
             gotGeometries == gotIds /\ HasAll(page.features, "geometry")
             gotProperties == gotGeometries
                                  /\ HasAll(page.features, "properties")
             gotNext == gotProperties /\ page.hasLinks
         IN  /\ Len(ids) + Len(page.features) <= MaxInv
             /\ ids' = IF gotIds
                       THEN Extend(ids, page.features, "id") ELSE ids
             /\ geometries' = IF gotGeometries
                              THEN Extend(geometries, page.features, "geometry")
                              ELSE geometries
             /\ properties' = IF gotProperties
                              THEN Extend(properties, page.features,
                                          "properties")
                              ELSE properties
             /\ next_url' = IF gotNext THEN page.next ELSE next_url
             /\ IF gotNext /\ Truthy(page.next)
                THEN pc' = "paging" /\ UNCHANGED <<err, loopVars>>
                ELSE GoTo(AfterPair)
             /\ pairState' = IF ~gotNext THEN "Failed"
                             ELSE IF Truthy(page.next) THEN "Paging"
                             ELSE "Done"
             /\ pageCalls' = Min(pageCalls + 1, MaxPages + 1)
             /\ pagesSent' = IF WellFormed(page)
                             THEN Min(pagesSent + 1, MaxPages + 1)
                             ELSE pagesSent
             /\ lastNext' = IF WellFormed(page) THEN page.next ELSE lastNext
             /\ pairItems' = IF WellFormed(page)
                             THEN pairItems \o page.features ELSE pairItems
    /\ UNCHANGED <<argVars, total_requests, request_count, search_request,
                   response, attempt, postCalls, failCalls, okResp, startLen,
                   posted, names, attempted, callVars>>

Next ==
    \/ Enter
    \/ BeginPair
    \/ BuildFiltersRaises
    \/ PostSearch
    \/ SkipPair
    \/ ReadSearchId
    \/ GetPage

Spec == Init /\ [][Next]_vars

\* the interpreter always takes the next step, and every call made to the
\* server returns or raises
FairSpec == Spec /\ WF_vars(Next)

(***************************************************************************)
(* tile_dates on its own: every call with start <= end and max_days >= 1   *)
(* within the bounds.                                                      *)
(***************************************************************************)
\* fetch_planet_data is not running
FetchIdle ==
    /\ aois = <<>>
    /\ date_ranges = <<>>
    /\ max_cloud = 50
    /\ min_sun_angle = 0
    /\ FetchStart

InitDates ==
    /\ FetchIdle
    /\ td = NoSlicing
    /\ la = NoLoad
    /\ rc = NoClient
    /\ tl = NoTiling
    /\ \E s \in 0..MaxStart, d \in 1..MaxDays, m \in 1..MaxSlice :
         dt = [start |-> s, end |-> s + d - 1, max_days |-> m,
               called |-> FALSE, out |-> <<>>]

TileDatesCall ==
    /\ ~dt.called
    /\ dt' = [dt EXCEPT !.called = TRUE,
                        !.out = tile_dates(dt.start, dt.end, dt.max_days)]
    /\ UNCHANGED <<fetchVars, td, la, rc, tl>>

NextDates == TileDatesCall

SpecDates == InitDates /\ [][NextDates]_vars

(***************************************************************************)
(* Spatial tiling on its own: tile_aoi for every AOI made of sample        *)
(* squares and every tile size within the bounds, and the choice of tiles  *)
(* that fetch_planet_data makes for the AOI (lines 125-129).               *)
(***************************************************************************)
SampleCoords == {0, MaxCoord - 1, MaxCoord}

SampleSquares == SampleCoords \X SampleCoords

InitTiles ==
    /\ FetchIdle
    /\ td = NoSlicing
    /\ la = NoLoad
    /\ rc = NoClient
    /\ dt = NoDates
    /\ \E a \in (SUBSET SampleSquares) \ {{}}, g \in 1..MaxTile :
         tl = [NoTiling EXCEPT !.aoi = a, !.size = g]

\* tile_aoi(aoi, tile_size_deg): the grid boxes and the tiles returned
TileAoiCall ==
    /\ ~tl.called
    /\ tl' = [tl EXCEPT !.called = TRUE,
                        !.cells = GridCells(tl.aoi, tl.size),
                        !.out = tile_aoi(tl.aoi, tl.size)]
    /\ UNCHANGED <<fetchVars, td, la, rc, dt>>

\* lines 125-129 for one AOI: tile_aoi(aoi) or [aoi]
FetchTilesCall ==
    /\ ~tl.fetched
    /\ tl' = [tl EXCEPT !.fetched = TRUE, !.tiles = TilesOf(tl.aoi)]
    /\ UNCHANGED <<fetchVars, td, la, rc, dt>>

NextTiles == TileAoiCall \/ FetchTilesCall

SpecTiles == InitTiles /\ [][NextTiles]_vars

(***************************************************************************)
(* run_client (client.py): the AOI files are read into the list aois, and  *)
(* each AOI of the list is processed with start_dates[i], end_dates[i], i  *)
(* its index in aois.  An AOI is named by the position of its file.  The   *)
(* calls made for one AOI (filters, tiling, fetch, analysis, saving) leave *)
(* the variables of run_client alone and run inside try / except.          *)
(***************************************************************************)
\* geometry.read_geojson(file) followed by geometry.buffer_points(...): a
\* file is readable or not
ReadOrBufferRaises(file) == file = "unreadable"

ClientDateRanges == {<<0, 9>>, <<20, 44>>}

InitClient ==
    /\ FetchIdle
    /\ td = NoSlicing
    /\ la = NoLoad
    /\ dt = NoDates
    /\ tl = NoTiling
    /\ \E n \in 0..MaxFiles :
         \E files \in [1..n -> {"readable", "unreadable"}],
            dates \in [1..n -> ClientDateRanges] :
              rc = [NoClient EXCEPT
                        !.aoi_files = files,
                        !.start_dates = [k \in 1..n |-> dates[k][1]],
                        !.end_dates = [k \in 1..n |-> dates[k][2]],
                        !.pc = "read"]

\* lines 67-74: one iteration of "for file in aoi_files"
ReadAoi ==
    /\ rc.pc = "read"
    /\ rc.fi < Len(rc.aoi_files)
    /\ rc' = [rc EXCEPT
                 !.fi = rc.fi + 1,
                 !.aois = IF ReadOrBufferRaises(rc.aoi_files[rc.fi + 1])
                          THEN rc.aois
                          ELSE Append(rc.aois, rc.fi + 1)]
    /\ UNCHANGED <<fetchVars, td, la, dt, tl>>

\* the end of the reading loop; "for i, aoi in enumerate(aois)" begins
EndRead ==
    /\ rc.pc = "read"
    /\ rc.fi = Len(rc.aoi_files)
    /\ rc' = [rc EXCEPT !.pc = "process", !.i = 0]
    /\ UNCHANGED <<fetchVars, td, la, dt, tl>>

\* lines 77-124: the body for aois[i], with start = start_dates[i] and
\* end = end_dates[i] (i counted from 0 in the code, from 1 here)
ProcessAoi ==
    /\ rc.pc = "process"
    /\ rc.i < Len(rc.aois)
    /\ LET aoi == rc.aois[rc.i + 1]
           start == rc.start_dates[rc.i + 1]
           end == rc.end_dates[rc.i + 1]
       IN  rc' = [rc EXCEPT
                      !.i = rc.i + 1,
                      !.processed =
                          Append(rc.processed,
                                 [aoi |-> aoi, start |-> start, end |-> end])]
    /\ UNCHANGED <<fetchVars, td, la, dt, tl>>

\* line 126: the loop over aois is over
EndProcess ==
    /\ rc.pc = "process"
    /\ rc.i = Len(rc.aois)
    /\ rc' = [rc EXCEPT !.pc = "done"]
    /\ UNCHANGED <<fetchVars, td, la, dt, tl>>

NextClient == ReadAoi \/ EndRead \/ ProcessAoi \/ EndProcess

SpecClient == InitClient /\ [][NextClient]_vars

(***************************************************************************)
(* geometry.py: normalize_geometry and load_aois.  A geometry has a type,  *)
(* the points it is made of (point and line types) and the unit squares it *)
(* covers (polygon types); its area is the number of squares.  Geometries  *)
(* read from files are not empty.                                          *)
(***************************************************************************)
Geometry(geom_type, points, squares) ==
    [geom_type |-> geom_type, points |-> points, squares |-> squares]

Area(geom) == Cardinality(geom.squares)

\* the squares within distance r of the point pt
SquaresAround(pt, r) ==
    {<<pt[1] + dx, pt[2] + dy>> : dx \in (0 - r)..(r - 1), dy \in (0 - r)..(r - 1)}

\* two buffered points are one piece when their squares meet
Apart(points, r) ==
    \E pt \in points, qt \in points :
        \/ pt[1] - qt[1] > 2 * r
        \/ pt[2] - qt[2] > 2 * r

\* geom.buffer(point_buffer_deg) of a point geometry: a polygon around each
\* point, merged into one Polygon where they meet; empty for a buffer of 0
Buffer(geom, r) ==
    Geometry(IF r > 0 /\ Apart(geom.points, r) THEN "MultiPolygon"
                                                ELSE "Polygon",
             {},
             UNION {SquaresAround(pt, r) : pt \in geom.points})

\* a normalisation without its last line: other types are passed through
normalize_geometryNoRaise(geom, point_buffer_deg) ==
    IF geom.geom_type \in {"Point", "MultiPoint"}
    THEN [raised |-> "None", value |-> Buffer(geom, point_buffer_deg)]
    ELSE [raised |-> "None", value |-> geom]

\* normalize_geometry: the value returned, or the exception raised
normalize_geometry(geom, point_buffer_deg) ==
    IF geom.geom_type \in {"Point", "MultiPoint"}
    THEN [raised |-> "None", value |-> Buffer(geom, point_buffer_deg)]
    ELSE IF geom.geom_type \in {"Polygon", "MultiPolygon"}
    THEN [raised |-> "None", value |-> geom]
    ELSE [raised |-> "ValueError", value |-> geom]

SampleGeometries ==
    {Geometry("Point", {<<0, 0>>}, {}),
     Geometry("MultiPoint", {<<0, 0>>, <<1, 0>>}, {}),
     Geometry("MultiPoint", {<<0, 0>>, <<5, 5>>}, {}),
     Geometry("Polygon", {}, {<<0, 0>>, <<1, 0>>}),
     Geometry("MultiPolygon", {}, {<<0, 0>>, <<3, 3>>}),
     Geometry("LineString", {<<0, 0>>, <<1, 1>>}, {}),
     Geometry("GeometryCollection", {<<0, 0>>}, {<<2, 2>>})}

\* files: the rows of the frame gpd.read_file returns, none for an empty one
SampleFiles ==
    {<<>>} \cup {<<g>> : g \in SampleGeometries}
           \cup {<<Geometry("Polygon", {}, {<<0, 0>>, <<1, 0>>}), g>> :
                     g \in SampleGeometries}

InitAois ==
    /\ FetchIdle
    /\ td = NoSlicing
    /\ dt = NoDates
    /\ tl = NoTiling
    /\ rc = NoClient
    /\ \E n \in 0..MaxFiles :
         \E files \in [1..n -> SampleFiles], r \in {0, 1} :
              la = [NoLoad EXCEPT !.aoi_files = files,
                                  !.point_buffer_deg = r,
                                  !.pc = "loop"]

RECURSIVE NormalizeRows(_, _, _)
\* "for geom in gdf.geometry: geometries.append(normalize_geometry(...))"
\* from row k on: what is appended, and the exception that ends the loop
NormalizeRows(rows, k, r) ==
    IF k > Len(rows)
    THEN [raised |-> "None", values |-> <<>>, sources |-> <<>>]
    ELSE LET n == normalize_geometry(rows[k], r)
         IN  IF n.raised # "None"
             THEN [raised |-> n.raised, values |-> <<>>, sources |-> <<>>]
             ELSE LET rest == NormalizeRows(rows, k + 1, r)
                  IN  [raised |-> rest.raised,
                       values |-> <<n.value>> \o rest.values,
                       sources |-> <<rows[k]>> \o rest.sources]

\* lines 31-38: one iteration of "for file in aoi_files"
LoadFile ==
    /\ la.pc = "loop"
    /\ la.fi < Len(la.aoi_files)
    /\ LET gdf == la.aoi_files[la.fi + 1]
           done == NormalizeRows(gdf, 1, la.point_buffer_deg)
       IN  IF gdf = <<>>
           THEN la' = [la EXCEPT !.fi = la.fi + 1, !.pc = "raised",
                                 !.err = "ValueError"]
           ELSE la' = [la EXCEPT
                           !.fi = la.fi + 1,
                           !.geometries = la.geometries \o done.values,
                           !.sources = la.sources \o done.sources,
                           !.pc = IF done.raised = "None" THEN "loop"
                                                          ELSE "raised",
                           !.err = done.raised]
    /\ UNCHANGED <<fetchVars, td, dt, tl, rc>>

\* lines 40-41: return geometries
ReturnAois ==
    /\ la.pc = "loop"
    /\ la.fi = Len(la.aoi_files)
    /\ la' = [la EXCEPT !.pc = "returned"]
    /\ UNCHANGED <<fetchVars, td, dt, tl, rc>>

NextAois == LoadFile \/ ReturnAois

SpecAois == InitAois /\ [][NextAois]_vars

(***************************************************************************)
(* tile_dates step by step, for every start, end and max_days within the   *)
(* bounds: max_days <= 0 and start > end included.  A date below the       *)
(* earliest day raises OverflowError, as datetime arithmetic does.  The    *)
(* list slices is kept up to MaxKept entries, more than any call with      *)
(* max_days >= 1 appends.                                                  *)
(***************************************************************************)
MinDay == 0 - MaxBack

MaxKept == MaxDays + 1

InitSlices ==
    /\ FetchIdle
    /\ dt = NoDates
    /\ tl = NoTiling
    /\ rc = NoClient
    /\ la = NoLoad
    /\ \E st \in 0..MaxStart, d \in (0 - 1)..MaxDays, m \in (0 - 1)..MaxSlice :
         td = [NoSlicing EXCEPT !.start = st, !.end = st + d - 1,
                                !.max_days = m, !.pc = "call"]

\* lines 76-80: return [(start, end)] for a short range, else begin the loop
SlicesEnter ==
    /\ td.pc = "call"
    /\ LET total_days == (td.end - td.start) + 1
       IN  IF total_days <= td.max_days
           THEN td' = [td EXCEPT !.pc = "returned",
                                 !.slices = <<<<td.start, td.end>>>>]
           ELSE td' = [td EXCEPT !.pc = "while", !.current_start = td.start]
    /\ UNCHANGED <<fetchVars, dt, tl, rc, la>>

\* line 81: while current_start <= end; line 85: return slices
SlicesTest ==
    /\ td.pc = "while"
    /\ td' = [td EXCEPT !.pc = IF td.current_start <= td.end THEN "body"
                                                             ELSE "returned"]
    /\ UNCHANGED <<fetchVars, dt, tl, rc, la>>

\* lines 82-84: the body of the loop
SlicesBody ==
    /\ td.pc = "body"
    /\ IF td.current_start + (td.max_days - 1) < MinDay
       THEN td' = [td EXCEPT !.pc = "raised", !.err = "OverflowError"]
       ELSE LET current_end == SliceEnd(td.current_start, td.end, td.max_days)
            IN  td' = [td EXCEPT
                           !.pc = "while",
                           !.slices = IF Len(td.slices) < MaxKept
                                      THEN Append(td.slices,
                                                  <<td.current_start,
                                                    current_end>>)
                                      ELSE td.slices,
                           !.current_start = current_end + 1]
    /\ UNCHANGED <<fetchVars, dt, tl, rc, la>>

NextSlices == SlicesEnter \/ SlicesTest \/ SlicesBody

SpecSlices == InitSlices /\ [][NextSlices]_vars

\* the interpreter always takes the next step
FairSpecSlices == SpecSlices /\ WF_vars(NextSlices)

(***************************************************************************)
(* Vocabulary of the properties.                                           *)
(***************************************************************************)
\* the run has left fetch_planet_data, by return or by an exception
Ended == pc \in {"done", "raised"}

\* a search-creation call of the current pair was answered 2xx
Submitted2xx == okResp # None

\* the pairs of the tile x interval cross product, in iteration order
PairsOfAoi(a) ==
    LET nt == Len(TilesOf(aois[a]))
        ns == Len(RunSlices)
    IN  [k \in 1..(nt * ns) |-> <<a, ((k - 1) \div ns) + 1, ((k - 1) % ns) + 1>>]

RECURSIVE PairsFrom(_)
PairsFrom(a) ==
    IF a > Len(aois) THEN <<>> ELSE PairsOfAoi(a) \o PairsFrom(a + 1)

AllPairs == IF date_ranges = <<>> THEN <<>> ELSE PairsFrom(1)

\* what the current pair has appended to a list that was n long at its start
Appended(seq, n) == SubSeq(seq, n + 1, Len(seq))

\* the three entries at one index of the inventory belong to one feature
SameFeature(i, g, p) == Feature(i, g, p) \in GoodFeatures

(***************************************************************************)
(* C1.  For every input and every behaviour of the server the run ends:    *)
(* fetch_planet_data eventually returns (counting here, to the claim's     *)
(* advantage, an exception that leaves the function as an end too).        *)
(* A property of FairSpec.                                                 *)
(***************************************************************************)
C1_RunEnds == <>Ended

(***************************************************************************)
(* C2.  When no search-creation call of a pair was answered 2xx, no        *)
(* results page is requested for the pair, nothing is appended to the      *)
(* inventory for it, and it fails after exactly MAX_RETRIES calls.         *)
(***************************************************************************)
C2_NoPageWithoutSuccess ==
    ~Submitted2xx =>
        /\ pageCalls = 0
        /\ startLen = <<Len(ids), Len(geometries), Len(properties)>>
        /\ pairState = "Failed" => postCalls = MAX_RETRIES

(***************************************************************************)
(* C3.  When the search-creation call fails k times and then succeeds,     *)
(* k + 1 <= MAX_RETRIES, exactly k + 1 calls are made, no further call     *)
(* follows, the successful response is the one read, and, its body holding *)
(* an id, the pair goes on to paging at the first-page URL of that id.     *)
(***************************************************************************)
C3_RetryThenSucceed ==
    Submitted2xx =>
        /\ postCalls = failCalls + 1
        /\ postCalls <= MAX_RETRIES
        /\ pc # "post"
        /\ response = okResp
        /\ okResp.body.id # Missing =>
              /\ pc # "submitted" => pairState \in {"Paging", "Done", "Failed"}
              /\ pc # "submitted" /\ pairState # "Paging" => pageCalls >= 1
              /\ pc = "paging" /\ pageCalls = 0 =>
                    next_url = FirstPageUrl(okResp.body.id, DefaultPageSize)

\* the fifth attempt succeeds after four failures and paging begins
C3_Witness ==
    /\ Submitted2xx
    /\ failCalls = MAX_RETRIES - 1
    /\ pc = "paging"
    /\ pageCalls = 0

(***************************************************************************)
(* C4.  A failed pair never aborts the run: once the submission retries of *)
(* a pair are exhausted, or the pair has failed otherwise, no request is   *)
(* issued for it; the failure does not leave the function as an error; and *)
(* when the function returns every pair has been attempted exactly once,   *)
(* in iteration order.                                                     *)
(***************************************************************************)
C4_FailureIsolated ==
    /\ postCalls = MAX_RETRIES /\ ~Submitted2xx => pageCalls = 0
    /\ pairState = "Failed" => pc \in {"pair", "done"}
    /\ pc = "done" => attempted = AllPairs

(***************************************************************************)
(* C5.  An error raised while building the filter of a pair does not       *)
(* escape the per-pair loop.                                               *)
(***************************************************************************)
C5_FilterErrorCaught == ~(pc = "raised" /\ err = "InvalidRangeError")

(***************************************************************************)
(* C6.  A search-creation call answered 4xx is not retried: when the first *)
(* call of a pair is answered 4xx no second call is made.                  *)
(***************************************************************************)
C6_ClientErrorNotRetried ==
    postCalls = 1 /\ response.status = "4xx" => pc # "post"

(***************************************************************************)
(* C7.  Paging of a pair: the first request goes to the URL built from the *)
(* search id and the page size, each later one to the _next of the page    *)
(* before; when the pair is done, the last page carried no cursor, as many *)
(* requests were made as pages were sent, and what the pair appended to    *)
(* ids, geometries and properties is the concatenation of the pages'       *)
(* features, in page order, field by field.                                *)
(***************************************************************************)
C7_PagesConcatenated ==
    /\ pc = "paging" =>
          /\ Truthy(next_url)
          /\ next_url = IF pageCalls = 0
                        THEN FirstPageUrl(response.body.id, DefaultPageSize)
                        ELSE lastNext
    /\ pairState = "Done" =>
          /\ pageCalls >= 1
          /\ pageCalls = pagesSent
          /\ lastNext = UrlNone
          /\ Appended(ids, startLen[1]) = Extract(pairItems, "id")
          /\ Appended(geometries, startLen[2]) = Extract(pairItems, "geometry")
          /\ Appended(properties, startLen[3])
                 = Extract(pairItems, "properties")

\* a pair done after three or more pages that brought two different items
C7_Witness ==
    /\ pairState = "Done"
    /\ Submitted2xx
    /\ pageCalls >= 3
    /\ Len(pairItems) = 2
    /\ pairItems[1] # pairItems[2]

(***************************************************************************)
(* C8.  For start <= end, d = (end - start) + 1 and max_days = m >= 1,     *)
(* tile_dates returns the one interval (start, end) if d <= m, and         *)
(* otherwise ceil(d / m) intervals in chronological order, the first       *)
(* starting at start, each next one starting the day after the one before  *)
(* ends, all of length m but the last, which ends at end; every day of     *)
(* [start, end] lies in exactly one interval and none is longer than m.    *)
(* A property of SpecDates.                                                *)
(***************************************************************************)
C8_TileDatesPartition ==
    dt.called /\ dt.start <= dt.end /\ dt.max_days >= 1 =>
        LET d == (dt.end - dt.start) + 1
            m == dt.max_days
            out == dt.out
            n == Len(out)
        IN  /\ d <= m => out = <<<<dt.start, dt.end>>>>
            /\ d > m =>
                  /\ n = CeilDiv(d, m)
                  /\ out[1][1] = dt.start
                  /\ \A i \in 1..(n - 1) :
                        /\ out[i + 1][1] = out[i][2] + 1
                        /\ (out[i][2] - out[i][1]) + 1 = m
                  /\ out[n][2] = dt.end
            /\ \A i \in 1..n :
                  /\ out[i][1] <= out[i][2]
                  /\ (out[i][2] - out[i][1]) + 1 <= m
            /\ \A day \in dt.start..dt.end :
                  Cardinality({i \in 1..n :
                                   out[i][1] <= day /\ day <= out[i][2]}) = 1

\* three or more slices, the last one cut short
C8_Witness ==
    /\ dt.called
    /\ Len(dt.out) >= 3
    /\ ((dt.end - dt.start) + 1) % dt.max_days # 0

(***************************************************************************)
(* C9.  The request counter never exceeds the total reported with it, and  *)
(* when the run returns the counter equals the total, which is the number  *)
(* of tile x interval pairs processed.                                     *)
(***************************************************************************)
C9_CounterWithinTotal ==
    /\ request_count <= total_requests
    /\ pc = "done" =>
          /\ request_count = total_requests
          /\ total_requests = Len(AllPairs)

(***************************************************************************)
(* C10.  After every pair and at return, ids, geometries and properties    *)
(* have the same length, and the entries at each index come from the same  *)
(* feature.                                                                *)
(***************************************************************************)
C10_InventoryAligned ==
    pc \in {"pair", "done"} =>
        /\ Len(ids) = Len(geometries)
        /\ Len(ids) = Len(properties)
        /\ \A i \in 1..Len(ids) :
              SameFeature(ids[i], geometries[i], properties[i])

(***************************************************************************)
(* C11.  For an AOI whose bounding-box area under the flat approximation,  *)
(* width x height x 111^2 km2, is at most the spatial threshold, the tile  *)
(* list fetch_planet_data uses is the one-element list [AOI]; a list made  *)
(* by tile_aoi is used only when the area is above the threshold.          *)
(* A property of SpecTiles.                                                *)
(***************************************************************************)
\* width and height of the bounding box, in grid units
BoxWidth(aoi) == (SetMax({c[1] : c \in aoi}) + 1) - SetMin({c[1] : c \in aoi})

BoxHeight(aoi) == (SetMax({c[2] : c \in aoi}) + 1) - SetMin({c[2] : c \in aoi})

\* area in km2 <= threshold, the degrees written as grid units / UnitsPerDeg
AreaWithinThreshold(aoi) ==
    BoxWidth(aoi) * BoxHeight(aoi) * KmPerDeg * KmPerDeg
        <= SPATIAL_TILE_AREA_THRESHOLD_KM2 * UnitsPerDeg * UnitsPerDeg

C11_SmallAoiNotTiled ==
    tl.fetched =>
        /\ AreaWithinThreshold(tl.aoi) => tl.tiles = <<tl.aoi>>
        /\ tl.tiles # <<tl.aoi>> => ~AreaWithinThreshold(tl.aoi)

\* an AOI within the threshold that tile_aoi would have split
C11_Witness ==
    /\ tl.fetched
    /\ AreaWithinThreshold(tl.aoi)
    /\ Len(tile_aoi(tl.aoi, UnitsPerDeg)) >= 2
    /\ tl.tiles = <<tl.aoi>>

(***************************************************************************)
(* C12.  For an AOI with bounding box [minx, maxx] x [miny, maxy] and tile *)
(* size g > 0, tile_aoi lays ceil((maxx - minx) / g) x ceil((maxy - miny)  *)
(* / g) grid cells starting at (minx, miny); every cell lies inside the    *)
(* bounding box, the last one on each axis clipped to maxx / maxy; the     *)
(* cells cover the bounding box and their interiors are pairwise disjoint; *)
(* every tile returned is the intersection, of area > 0, of one cell with  *)
(* the AOI; the tiles together cover the AOI and none extends outside it.  *)
(* A property of SpecTiles.                                                *)
(***************************************************************************)
\* the unit square <<x, y>> lies in the box <<x0, y0, x1, y1>>
SquareInBox(sq, bx) ==
    /\ bx[1] <= sq[1] /\ sq[1] + 1 <= bx[3]
    /\ bx[2] <= sq[2] /\ sq[2] + 1 <= bx[4]

C12_TilesCoverAoi ==
    tl.called =>
        LET aoi == tl.aoi
            g == tl.size
            minx == SetMin({c[1] : c \in aoi})
            miny == SetMin({c[2] : c \in aoi})
            maxx == minx + BoxWidth(aoi)
            maxy == miny + BoxHeight(aoi)
            nx == (BoxWidth(aoi) + g - 1) \div g
            ny == (BoxHeight(aoi) + g - 1) \div g
            cells == tl.cells
            out == tl.out
        IN  /\ Len(cells) = nx * ny
            /\ cells[1][1] = minx /\ cells[1][2] = miny
            /\ \A k \in 1..Len(cells) :
                  /\ minx <= cells[k][1] /\ cells[k][1] < cells[k][3]
                  /\ cells[k][3] <= maxx
                  /\ miny <= cells[k][2] /\ cells[k][2] < cells[k][4]
                  /\ cells[k][4] <= maxy
                  /\ (cells[k][1] - minx) % g = 0
                  /\ (cells[k][2] - miny) % g = 0
                  /\ cells[k][3] = cells[k][1] + g \/ cells[k][3] = maxx
                  /\ cells[k][4] = cells[k][2] + g \/ cells[k][4] = maxy
                  /\ cells[k][3] - cells[k][1] <= g
                  /\ cells[k][4] - cells[k][2] <= g
            /\ \A x \in minx..(maxx - 1), y \in miny..(maxy - 1) :
                  Cardinality({k \in 1..Len(cells) :
                                   SquareInBox(<<x, y>>, cells[k])}) = 1
            /\ \A t \in 1..Len(out) :
                  /\ out[t] # {}
                  /\ out[t] \subseteq aoi
                  /\ \E k \in 1..Len(cells) :
                        out[t] = {sq \in aoi : SquareInBox(sq, cells[k])}
            /\ UNION {out[t] : t \in 1..Len(out)} = aoi
            /\ \A t, u \in 1..Len(out) : t # u => out[t] \cap out[u] = {}

\* a grid of two by two cells or more, the last cell of each axis clipped,
\* and a cell that the AOI leaves empty
C12_Witness ==
    /\ tl.called
    /\ BoxWidth(tl.aoi) % tl.size # 0
    /\ BoxHeight(tl.aoi) % tl.size # 0
    /\ BoxWidth(tl.aoi) > tl.size
    /\ BoxHeight(tl.aoi) > tl.size
    /\ Len(tl.out) >= 2
    /\ Len(tl.out) < Len(tl.cells)

(***************************************************************************)
(* C13.  Every filter combined for a search holds exactly one geometry     *)
(* constraint, one date-range constraint, one cloud-cover constraint and   *)
(* one sun-angle constraint, under a single AND node, whatever the AOI,    *)
(* the dates and the thresholds.                                           *)
(***************************************************************************)
\* the constraints of a filter that are of one kind
GeometryConstraints(f) ==
    {k \in 1..Len(f.config) : f.config[k].type = "GeometryFilter"}

DateConstraints(f) ==
    {k \in 1..Len(f.config) : f.config[k].type = "DateRangeFilter"}

RangeConstraints(f, field) ==
    {k \in 1..Len(f.config) :
         f.config[k].type = "RangeFilter" /\ f.config[k].field_name = field}

CurrentPair == attempted[Len(attempted)]

PairTile == TilesOf(aois[CurrentPair[1]])[CurrentPair[2]]

PairInterval == RunSlices[CurrentPair[3]]

C15_RequestOfThePair ==
    /\ pc \in {"post", "submitted", "paging"} =>
          LET f == search_request.filter
          IN  /\ \A k \in GeometryConstraints(f) : f.config[k].config = PairTile
              /\ \A k \in DateConstraints(f) :
                    f.config[k].config = PairInterval
              /\ \A k \in RangeConstraints(f, "cloud_cover") :
                    f.config[k].lte = max_cloud
              /\ \A k \in RangeConstraints(f, "sun_elevation") :
                    f.config[k].gte = min_sun_angle
              /\ GeometryConstraints(f) # {}
              /\ DateConstraints(f) # {}
              /\ RangeConstraints(f, "cloud_cover") # {}
              /\ RangeConstraints(f, "sun_elevation") # {}
              /\ posted \subseteq {search_request}
              /\ postCalls >= 1 => posted = {search_request}
              /\ names[Len(names)] = search_request.name
    /\ \A i, j \in 1..Len(names) : i # j => names[i] # names[j]

\* the fifth attempt of the second interval of the second tile has been
\* made, after requests for other pairs
C15_Witness ==
    /\ pc = "submitted"
    /\ postCalls = MAX_RETRIES
    /\ Len(names) >= 3
    /\ ti = 2 /\ di = 2

(***************************************************************************)
(* C14.  The inventory is append-only over the whole run: at every step    *)
(* ids, geometries and properties each keep their earlier value as a       *)
(* prefix.  In particular, when a page fetch fails in the middle of the    *)
(* pagination of a pair, the items of the pages of the pair fetched before *)
(* the failure, and those of all earlier pairs, stay in the inventory.     *)
(***************************************************************************)
IsPrefix(s, t) == Len(s) <= Len(t) /\ SubSeq(t, 1, Len(s)) = s

C14_AppendOnly ==
    /\ [][/\ IsPrefix(ids, ids')
          /\ IsPrefix(geometries, geometries')
          /\ IsPrefix(properties, properties')]_vars
    /\ [](pairState = "Failed" =>
             /\ IsPrefix(Extract(pairItems, "id"), Appended(ids, startLen[1]))
             /\ IsPrefix(Extract(pairItems, "geometry"),
                         Appended(geometries, startLen[2]))
             /\ IsPrefix(Extract(pairItems, "properties"),
                         Appended(properties, startLen[3])))

\* a pair has failed on its second page or later, with an item of an
\* earlier pair and an item of its own earlier page in the inventory
C14_Witness ==
    /\ pairState = "Failed"
    /\ pageCalls >= 2
    /\ startLen[1] >= 1
    /\ Len(pairItems) >= 1
    /\ Len(ids) = startLen[1] + Len(pairItems)

(***************************************************************************)
(* C16.  In run_client every AOI that is processed is processed with the   *)
(* start date and the end date given at the position of its file in        *)
(* aoi_files, whichever of the files fail to load.                         *)
(* A property of SpecClient.                                               *)
(***************************************************************************)
C16_DatesOfSamePosition ==
    \A k \in 1..Len(rc.processed) :
        /\ rc.processed[k].start = rc.start_dates[rc.processed[k].aoi]
        /\ rc.processed[k].end = rc.end_dates[rc.processed[k].aoi]

(***************************************************************************)
(* C17.  normalize_geometry returns a polygonal geometry for every Point   *)
(* or MultiPoint (the input buffered by point_buffer_deg, of area > 0 when *)
(* point_buffer_deg > 0), returns every Polygon or MultiPolygon unchanged, *)
(* and fails with ValueError for every other type; so load_aois returns    *)
(* only polygonal geometries or raises, and returns no partial list when a *)
(* file is empty or holds an unsupported geometry.                         *)
(* A property of SpecAois.                                                 *)
(***************************************************************************)
Polygonal(geom) == geom.geom_type \in {"Polygon", "MultiPolygon"}

PointLike(geom) == geom.geom_type \in {"Point", "MultiPoint"}

\* a file that load_aois cannot take: no rows, or a row of another type
BadFile(file) ==
    \/ file = <<>>
    \/ \E k \in 1..Len(file) : ~Polygonal(file[k]) /\ ~PointLike(file[k])

\* all rows of the files, in order
RECURSIVE RowsOf(_, _)
RowsOf(files, k) ==
    IF k > Len(files) THEN <<>> ELSE files[k] \o RowsOf(files, k + 1)

C18_TileDatesEnds == <>(td.pc \in {"returned", "raised"})

(***************************************************************************)
(* C19.  Each interval that is searched lies inside one of the supplied    *)
(* date ranges, so that no day outside all the ranges is included in a     *)
(* submitted search; and when the run returns, every day of every supplied *)
(* range has been included in a search for each tile.                      *)
(***************************************************************************)
C19_SearchedWithinRanges ==
    /\ pc \in {"post", "submitted", "paging"} =>
          LET f == search_request.filter
          IN  \A k \in DateConstraints(f) :
                  \E i \in 1..Len(date_ranges) :
                      /\ date_ranges[i][1] <= f.config[k].config[1]
                      /\ f.config[k].config[2] <= date_ranges[i][2]
    /\ pc = "done" =>
          \A a \in 1..Len(aois), i \in 1..Len(date_ranges) :
              \A t \in 1..Len(TilesOf(aois[a])),
                 day \in date_ranges[i][1]..date_ranges[i][2] :
                  \E k \in 1..Len(attempted) :
                      /\ attempted[k][1] = a
                      /\ attempted[k][2] = t
                      /\ RunSlices[attempted[k][3]][1] <= day
                      /\ day <= RunSlices[attempted[k][3]][2]

=============================================================================
